---- MODULE Spec2Model ----
(***************************************************************************)
(* A model of the document validator: the filename identity extractor and  *)
(* the invoice / purchase-order matcher (comparer.py), the field           *)
(* comparator and the batch pipeline with its temporary files              *)
(* (comparer.py, utils.py), and the field extractor seen from the pipeline *)
(* (azure_processor.py).                                                   *)
(*                                                                         *)
(* A string is a sequence of characters, a character a TLA+ string.  The   *)
(* characters "U0660" and "U0661" stand for ARABIC-INDIC DIGIT ZERO and    *)
(* ONE: Python's \d (str patterns) and int() accept every Unicode decimal  *)
(* digit, while lstrip('0') strips the ASCII zero only.                    *)
(***************************************************************************)
EXTENDS Integers, Sequences, FiniteSets, TLC

VARIABLES
    \* extract_document_number, called on one filename
    filename,            \* the argument
    doc_number,          \* the value returned (an optional string)
    xpc,                 \* "call" before the call, "ret" after it
    \* match_documents, called on one list of files
    files_data,          \* the argument: a list of DocumentRefs
    mres,                \* the outcome of the call
    mpc,                 \* "call" before the call, "ret" after it
    \* compare_documents, called on two field maps
    invoice_data,        \* the first argument
    po_data,             \* the second argument
    results,             \* the list returned
    cpc,                 \* "call" before the call, "ret" after it
    \* process_document_pairs, called on a list of pairs
    matched_pairs,       \* the argument: the pairs
    batch_size,          \* the argument: pairs per batch
    comparison_results,  \* the list being built and returned
    temp_files,          \* the paths tracked for cleanup
    batch_idx,           \* the outer loop's index (0-based)
    pair_idx,            \* the input index (0-based) of the inner loop's pair
    ppc,                 \* where the call is: "batch", "pair", "extract",
                         \* "finally", "returned", "raised"
    raising,             \* an exception is propagating out of the loops
    disk,                \* the temporary files that exist
    n_tmp,               \* the number of temporary files created so far
    visits,              \* the pairs the inner loop has taken: [batch, index]
    calls,               \* the arguments of each status_callback call
    extract_errors,      \* input indices of the pairs with a failed extraction
    answers,             \* what the service answered for each pair extracted:
                         \* [invoice, po], in the order of the calls
    unlink_errors,       \* the number of os.unlink calls that raised
    \* generate_comparison_report, called on a list of results
    report_input,        \* the argument
    df,                  \* the DataFrame returned
    rpc,                 \* "call" before the call, "ret" after it
    \* the Document Validation page of app.py
    session,             \* st.session_state: comparison_results,
                         \* comparison_df, unmatched_invoices, unmatched_pos,
                         \* matched_pairs
    apc,                 \* where the script run is: "idle", "processing",
                         \* "stopped", "failed"
    app_calls,           \* the calls the latest script run has made:
                         \* [match, process, report]
    in_memory,           \* IN_MEMORY_PROCESSING
    uploaded_files,      \* the files the uploader widget holds, by name
    \* estimate_memory_usage, called on a list of uploaded files
    file_sizes,          \* the argument: file.size of each file, in bytes
    memory_stats,        \* the dict returned, or the exception raised
    epc                  \* "call" before the call, "ret" after it

xvars == <<filename, doc_number, xpc>>
mvars == <<files_data, mres, mpc>>
cvars == <<invoice_data, po_data, results, cpc>>
pvars == <<matched_pairs, batch_size, comparison_results, temp_files, batch_idx,
           pair_idx, ppc, raising, disk, n_tmp, visits, calls, extract_errors,
           answers, unlink_errors>>
rvars == <<report_input, df, rpc>>
avars == <<session, apc, app_calls, in_memory, uploaded_files>>
evars == <<file_sizes, memory_stats, epc>>
vars == <<xvars, mvars, cvars, pvars, rvars, avars, evars>>

----------------------------------------------------------------------------
(* Characters and the str methods the code uses                            *)

AsciiDigits == {"0", "1", "2"}
UnicodeDigits == {"U0660", "U0661"}
\* \d of a str pattern: any Unicode decimal digit
Digits == AsciiDigits \cup UnicodeDigits
\* the class [-._\s] (also written [._\s-] and [_.\-\s])
Seps == {"-", ".", "_", " "}

\* the decimal value int() gives a digit
DigitVal(c) ==
    CASE c = "0" -> 0
      [] c = "1" -> 1
      [] c = "2" -> 2
      [] c = "U0660" -> 0
      [] c = "U0661" -> 1
      [] OTHER -> 0

\* str.lower(), character by character
LowerChar(c) ==
    CASE c = "I" -> "i"
      [] c = "N" -> "n"
      [] c = "V" -> "v"
      [] c = "P" -> "p"
      [] c = "O" -> "o"
      [] c = "X" -> "x"
      [] OTHER -> c

\* str.upper(), character by character
UpperChar(c) ==
    CASE c = "i" -> "I"
      [] c = "n" -> "N"
      [] c = "v" -> "V"
      [] c = "p" -> "P"
      [] c = "o" -> "O"
      [] c = "x" -> "X"
      [] c = "c" -> "C"
      [] c = "e" -> "E"
      [] c = "d" -> "D"
      [] c = "f" -> "F"
      [] OTHER -> c

Lower(s) == [i \in 1..Len(s) |-> LowerChar(s[i])]
Upper(s) == [i \in 1..Len(s) |-> UpperChar(s[i])]

MinOf(S) == CHOOSE x \in S : \A y \in S : x <= y
MaxOf(S) == CHOOSE x \in S : \A y \in S : x >= y

\* tok occurs in s at position i
MatchAt(s, i, tok) ==
    /\ i >= 1
    /\ i + Len(tok) - 1 <= Len(s)
    /\ SubSeq(s, i, i + Len(tok) - 1) = tok

\* tok in s
Contains(s, tok) == \E i \in 1..Len(s) : MatchAt(s, i, tok)

\* the first position at or after i that is past the end of s or holds a
\* character outside cls: where a greedy cls* (or cls+) started at i stops
RunEnd(s, i, cls) ==
    MinOf({j \in i..(Len(s) + 1) : j = Len(s) + 1 \/ s[j] \notin cls})

\* os.path.splitext(p)[0] of a name without directory: cut at the last dot,
\* unless only dots precede it
SplitextRoot(p) ==
    LET dots == {i \in 1..Len(p) : p[i] = "."}
    IN  IF dots = {} THEN p
        ELSE LET d == MaxOf(dots)
             IN  IF \E k \in 1..(d - 1) : p[k] # "." THEN SubSeq(p, 1, d - 1)
                 ELSE p

\* os.path.basename(p): what follows the last "/"
Basename(p) ==
    LET sl == {i \in 1..Len(p) : p[i] = "/"}
    IN  IF sl = {} THEN p ELSE SubSeq(p, MaxOf(sl) + 1, Len(p))

\* str.lstrip('0'): the ASCII zero only
RECURSIVE Lstrip0(_)
Lstrip0(s) ==
    IF s # <<>> /\ Head(s) = "0" THEN Lstrip0(Tail(s)) ELSE s

\* int(s) of a string of decimal digits
RECURSIVE IntOf(_)
IntOf(s) ==
    IF s = <<>> THEN 0
    ELSE 10 * IntOf(SubSeq(s, 1, Len(s) - 1)) + DigitVal(s[Len(s)])

----------------------------------------------------------------------------
(* The regular expressions of extract_document_number.  A search returns   *)
(* group 1 of the leftmost match, or <<>> when nothing matches (\d+ never  *)
(* captures the empty string).                                             *)

\* the first non-empty entry of a list of captures, <<>> when there is none
FirstNonEmpty(caps) ==
    IF \A k \in 1..Len(caps) : caps[k] = <<>> THEN <<>>
    ELSE caps[MinOf({k \in 1..Len(caps) : caps[k] # <<>>})]

\* an alternative is a list of literals with [-._\s]* between them; the
\* position after it when it matches at i, else 0
RECURSIVE AltEnd(_, _, _)
AltEnd(s, i, alt) ==
    IF ~MatchAt(s, i, Head(alt)) THEN 0
    ELSE IF Len(alt) = 1 THEN i + Len(Head(alt))
    ELSE AltEnd(s, RunEnd(s, i + Len(Head(alt)), Seps), Tail(alt))

\* (\d+) at j: the greedy digit run, <<>> when s[j] is no digit
DigitRunAt(s, j) == SubSeq(s, j, RunEnd(s, j, Digits) - 1)

\* [-._\s]*(\d+) from position e, 0 meaning that the alternative failed
DigitsAfter(s, e) ==
    IF e = 0 THEN <<>> ELSE DigitRunAt(s, RunEnd(s, e, Seps))

\* (?:alt1|alt2|...)[-._\s]*(\d+) anchored at i, alternatives tried in order
TokCaptureAt(s, i, alts) ==
    FirstNonEmpty([k \in 1..Len(alts) |-> DigitsAfter(s, AltEnd(s, i, alts[k]))])

\* re.search(r'(?:alt1|alt2|...)[-._\s]*(\d+)', s)
SearchTok(s, alts) ==
    FirstNonEmpty([i \in 1..Len(s) |-> TokCaptureAt(s, i, alts)])

InvAlts == << << <<"i","n","v">> >>, << <<"i","n","v","o","i","c","e">> >> >>
NumAlts == << << <<"n","u","m","b","e","r">> >>, << <<"n","u","m">> >>,
              << <<"n","o">> >>, << <<"#">> >> >>
PoAlts == << << <<"p","o">> >>, << <<"p",".","o">> >>, << <<"p","-","o">> >>,
             << <<"p","u","r","c","h","a","s","e">>, <<"o","r","d","e","r">> >> >>

\* the digit run s[i..k-1], kept when it is not empty and a separator or the
\* end follows it: (\d+)(?:[-._\s]|$) anchored at i
Framed(s, i, k) ==
    IF i <= Len(s) /\ k > i /\ (k = Len(s) + 1 \/ s[k] \in Seps)
    THEN SubSeq(s, i, k - 1) ELSE <<>>

FramedRunAt(s, i) == Framed(s, i, RunEnd(s, i, Digits))

\* re.search(r'[-._\s#](\d+)(?:[-._\s]|$)', s)
SearchSeparated(s) ==
    FirstNonEmpty([i \in 1..Len(s) |->
                      IF s[i] \in Seps \cup {"#"} THEN FramedRunAt(s, i + 1)
                      ELSE <<>>])

\* re.search(r'(\d+)(?:[._\s-]|$)', s)
SearchTrailing(s) ==
    FirstNonEmpty([i \in 1..Len(s) |-> FramedRunAt(s, i)])

----------------------------------------------------------------------------
(* extract_document_number                                                 *)

None == [present |-> FALSE, str |-> <<>>]
Some(s) == [present |-> TRUE, str |-> s]

\* x or '0'
OrZero(x) == IF x = <<>> THEN <<"0">> ELSE x

\* match.group(1).lstrip('0') or '0'
Normalize(digits) == OrZero(Lstrip0(digits))

\* any(p in clean_name for p in ['inv', 'invoice', 'bill', 'receipt'])
InvoiceHint(clean_name) ==
    \/ Contains(clean_name, <<"i","n","v">>)
    \/ Contains(clean_name, <<"i","n","v","o","i","c","e">>)
    \/ Contains(clean_name, <<"b","i","l","l">>)
    \/ Contains(clean_name, <<"r","e","c","e","i","p","t">>)

\* any(p in clean_name for p in ['po', 'p.o', 'p-o', 'purchase', 'order'])
PoHint(clean_name) ==
    \/ Contains(clean_name, <<"p","o">>)
    \/ Contains(clean_name, <<"p",".","o">>)
    \/ Contains(clean_name, <<"p","-","o">>)
    \/ Contains(clean_name, <<"p","u","r","c","h","a","s","e">>)
    \/ Contains(clean_name, <<"o","r","d","e","r">>)

\* the searches in the order the function tries them, a search it skips
\* counting as one without match
Searches(clean_name, is_invoice, is_po) ==
    << IF is_invoice THEN SearchTok(clean_name, InvAlts) ELSE <<>>,
       IF is_invoice THEN SearchTok(clean_name, NumAlts) ELSE <<>>,
       IF is_po THEN SearchTok(clean_name, PoAlts) ELSE <<>>,
       IF is_po THEN SearchTok(clean_name, NumAlts) ELSE <<>>,
       SearchSeparated(clean_name),
       SearchTrailing(clean_name) >>

\* the return of the first search that matches, None when none does
ReturnFirst(group1) ==
    IF group1 = <<>> THEN None ELSE Some(Normalize(group1))

NumberOfClean(clean_name) ==
    ReturnFirst(FirstNonEmpty(
        Searches(clean_name, InvoiceHint(clean_name), PoHint(clean_name))))

extract_document_number(fname) == NumberOfClean(SplitextRoot(Lower(fname)))

----------------------------------------------------------------------------
(* The filenames extract_document_number is called on: a stem, separators, *)
(* a digit run, a tail and an extension, each possibly empty.              *)

ExtStems == { <<>>, <<"i","n","v">>, <<"I","N","V">>,
              <<"i","n","v","o","i","c","e">>, <<"p","o">>, <<"p",".","o">>,
              <<"n","o">>, <<"x">>, <<"I">> }
ExtSeps == { <<>>, <<"-">>, <<".","-">>, <<"_">>, <<"#">>, <<" ">> }
ExtRuns == { <<>>, <<"1">>, <<"0","1">>, <<"0","0">>, <<"1","2">>,
             <<"U0661">>, <<"U0660","U0661">> }
ExtTails == { <<>>, <<"x">>, <<"-","2">> }
ExtExts == { <<>>, <<".","p","d","f">> }

ExtractNames ==
    { st \o sp \o rn \o tl \o ex :
        st \in ExtStems, sp \in ExtSeps, rn \in ExtRuns, tl \in ExtTails,
        ex \in ExtExts } \ { <<>> }

XInit ==
    /\ filename \in ExtractNames
    /\ doc_number = None
    /\ xpc = "call"

\* doc_number = extract_document_number(filename)
ExtractCall ==
    /\ xpc = "call"
    /\ doc_number' = extract_document_number(filename)
    /\ xpc' = "ret"
    /\ UNCHANGED filename

----------------------------------------------------------------------------
(* match_documents.  A DocumentRef is [tuple, str]: an in-memory           *)
(* (file_content, file_name) tuple, str being the file_name, or a path,    *)
(* str being the path.  A dict is the list of its items [k, v] in          *)
(* insertion order.                                                        *)

DictHas(d, k) == \E i \in 1..Len(d) : d[i].k = k
DictGet(d, k) == d[CHOOSE i \in 1..Len(d) : d[i].k = k].v
\* d[k] = v: a key already present keeps its place
DictSet(d, k, v) ==
    IF DictHas(d, k)
    THEN [i \in 1..Len(d) |-> IF d[i].k = k THEN [k |-> k, v |-> v] ELSE d[i]]
    ELSE Append(d, [k |-> k, v |-> v])
DictKeys(d) == {d[i].k : i \in 1..Len(d)}

\* basename of a file of the first loop: the tuple's file_name, or
\* os.path.basename of the path
FileBasename(file_data) ==
    IF file_data.tuple THEN file_data.str ELSE Basename(file_data.str)

\* re.search(tok + r'(?:[_.\-\s]|\d|$)', s)
SearchTokBoundary(s, tok) ==
    \E i \in 1..Len(s) :
        /\ MatchAt(s, i, tok)
        /\ \/ i + Len(tok) = Len(s) + 1
           \/ s[i + Len(tok)] \in Seps \cup Digits

IsInvoiceName(basename_lower) ==
    \/ SearchTokBoundary(basename_lower, <<"i","n","v">>)
    \/ Contains(basename_lower, <<"i","n","v","o","i","c","e">>)
    \/ Contains(basename_lower, <<"b","i","l","l">>)
    \/ Contains(basename_lower, <<"r","e","c","e","i","p","t">>)

IsPoName(basename_lower) ==
    \/ SearchTokBoundary(basename_lower, <<"p","o">>)
    \/ Contains(basename_lower, <<"p","u","r","c","h","a","s","e">>)
    \/ Contains(basename_lower, <<"o","r","d","e","r">>)

\* Classify with the purchase-order test made before the invoice test
Classify_PoFirst(file_data, acc, basename_lower, num) ==
    IF ~num.present THEN acc
    ELSE IF IsPoName(basename_lower)
    THEN [acc EXCEPT !.purchase_orders = DictSet(@, num.str, file_data)]
    ELSE IF IsInvoiceName(basename_lower)
    THEN [acc EXCEPT !.invoices = DictSet(@, num.str, file_data)]
    ELSE [acc EXCEPT !.unclassified = DictSet(@, num.str, file_data)]

\* the branch of the first loop's body taken for a file with the given
\* lower-cased basename and document number
Classify(file_data, acc, basename_lower, num) ==
    IF ~num.present THEN acc
    ELSE IF IsInvoiceName(basename_lower)
    THEN [acc EXCEPT !.invoices = DictSet(@, num.str, file_data)]
    ELSE IF IsPoName(basename_lower)
    THEN [acc EXCEPT !.purchase_orders = DictSet(@, num.str, file_data)]
    ELSE [acc EXCEPT !.unclassified = DictSet(@, num.str, file_data)]

\* one iteration of the first loop with basename computed
ClassifyNamed(file_data, acc, basename) ==
    Classify(file_data, acc, Lower(basename), extract_document_number(basename))

\* one iteration of the first loop, on the three dicts
ClassifyOne(file_data, acc) ==
    ClassifyNamed(file_data, acc, FileBasename(file_data))

RECURSIVE ClassifyAll(_, _)
ClassifyAll(files, acc) ==
    IF files = <<>> THEN acc
    ELSE ClassifyAll(Tail(files), ClassifyOne(Head(files), acc))

\* "I" == basename_upper[0] or re.search(r'I\d+', basename_upper)
GuessInvoice(basename_upper) ==
    \/ basename_upper[1] = "I"
    \/ \E i \in 1..(Len(basename_upper) - 1) :
           basename_upper[i] = "I" /\ basename_upper[i + 1] \in Digits

\* Resolve with the best-guess branch filing the item under both classes
Resolve_BothClasses(item, acc, inI, inP) ==
    IF inI /\ ~inP
    THEN [acc EXCEPT !.purchase_orders = DictSet(@, item.k, item.v)]
    ELSE IF inP /\ ~inI
    THEN [acc EXCEPT !.invoices = DictSet(@, item.k, item.v)]
    ELSE [acc EXCEPT !.invoices = DictSet(@, item.k, item.v),
                     !.purchase_orders = DictSet(@, item.k, item.v)]

\* the branch of the second loop's body taken for an unclassified item
Resolve(item, acc, inI, inP) ==
    IF inI /\ ~inP
    THEN [acc EXCEPT !.purchase_orders = DictSet(@, item.k, item.v)]
    ELSE IF inP /\ ~inI
    THEN [acc EXCEPT !.invoices = DictSet(@, item.k, item.v)]
    ELSE IF GuessInvoice(Upper(Basename(item.v.str)))
    THEN [acc EXCEPT !.invoices = DictSet(@, item.k, item.v)]
    ELSE [acc EXCEPT !.purchase_orders = DictSet(@, item.k, item.v)]

\* one iteration of the second loop; os.path.basename(file) raises
\* TypeError when file is a tuple
ResolveOne(item, acc) ==
    IF item.v.tuple THEN [acc EXCEPT !.raised = TRUE]
    ELSE Resolve(item, acc, DictHas(acc.invoices, item.k),
                 DictHas(acc.purchase_orders, item.k))

RECURSIVE ResolveAll(_, _)
ResolveAll(items, acc) ==
    IF items = <<>> \/ acc.raised THEN acc
    ELSE ResolveAll(Tail(items), ResolveOne(Head(items), acc))

NoDicts == [invoices |-> <<>>, purchase_orders |-> <<>>,
            unclassified |-> <<>>, raised |-> FALSE]

\* the second loop, run on the dicts the first loop leaves
ResolveUnclassified(first) == ResolveAll(first.unclassified, first)

\* the three dicts after both classification loops
Classified(files) == ResolveUnclassified(ClassifyAll(files, NoDicts))

MatchedPair(inv, po, num) ==
    [invoice |-> inv, purchase_order |-> po, doc_number |-> num]

\* the first matching pass: exact number matches, in the invoices' order
RECURSIVE ExactPairs(_, _)
ExactPairs(invoice_items, purchase_orders) ==
    IF invoice_items = <<>> THEN <<>>
    ELSE IF DictHas(purchase_orders, Head(invoice_items).k)
    THEN <<MatchedPair(Head(invoice_items).v,
                       DictGet(purchase_orders, Head(invoice_items).k),
                       Head(invoice_items).k)>>
         \o ExactPairs(Tail(invoice_items), purchase_orders)
    ELSE ExactPairs(Tail(invoice_items), purchase_orders)

\* int(s) returns rather than raising ValueError
IntParses(s) == s # <<>> /\ \A i \in 1..Len(s) : s[i] \in Digits

\* a in b
IsSubstr(a, b) == a = <<>> \/ Contains(b, a)

\* the test of the second pass: int(inv) == int(po), and on ValueError
\* inv in po or po in inv
FuzzyMatch(inv_number, po_number) ==
    IF IntParses(inv_number) /\ IntParses(po_number)
    THEN IntOf(inv_number) = IntOf(po_number)
    ELSE IsSubstr(inv_number, po_number) \/ IsSubstr(po_number, inv_number)

\* the POs the inner loop can stop at for inv_number
FuzzyCands(inv_number, remaining_po) ==
    {po \in remaining_po : FuzzyMatch(inv_number, po)}

\* the body of the inner loop's if: the pair appended, the numbers recorded
FuzzyAdd(st, invoices, purchase_orders, inv_number, po_number) ==
    [pairs |-> Append(st.pairs, MatchedPair(DictGet(invoices, inv_number),
                                            DictGet(purchase_orders, po_number),
                                            inv_number)),
     inv |-> st.inv \cup {inv_number},
     po |-> st.po \cup {po_number}]

\* the second matching pass.  Both loops run over list(<a set>), whose
\* order is the set's hash order: every order is possible.  st holds the
\* pairs appended and the numbers matched so far.
RECURSIVE FuzzyRuns(_, _, _, _, _)
FuzzyRuns(remaining_inv, remaining_po, invoices, purchase_orders, st) ==
    IF remaining_inv = {} THEN {st}
    ELSE UNION {
        IF FuzzyCands(inv, remaining_po) = {}
        THEN FuzzyRuns(remaining_inv \ {inv}, remaining_po,
                       invoices, purchase_orders, st)
        ELSE UNION {
            FuzzyRuns(remaining_inv \ {inv}, remaining_po \ {po},
                      invoices, purchase_orders,
                      FuzzyAdd(st, invoices, purchase_orders, inv, po))
            : po \in FuzzyCands(inv, remaining_po) }
        : inv \in remaining_inv }

\* list(S): the elements of a set in any order
ListsOf(S) ==
    {q \in [1..Cardinality(S) -> S] : \A i, j \in 1..Cardinality(S) :
                                          i # j => q[i] # q[j]}

Raised == [raised |-> TRUE, invoices |-> <<>>, purchase_orders |-> <<>>,
           matched_pairs |-> <<>>, unmatched_inv |-> <<>>, unmatched_po |-> <<>>]

\* Returns with the matched numbers not subtracted from the keys
Returns_KeepMatched(c, r) ==
    { [raised |-> FALSE,
       invoices |-> c.invoices,
       purchase_orders |-> c.purchase_orders,
       matched_pairs |-> r.pairs,
       unmatched_inv |-> ui,
       unmatched_po |-> up] :
      ui \in ListsOf(DictKeys(c.invoices)),
      up \in ListsOf(DictKeys(c.purchase_orders)) }

\* what is returned after a run r of the second pass: the unmatched lists
\* are list(<a set>), in any order
Returns(c, r) ==
    { [raised |-> FALSE,
       invoices |-> c.invoices,
       purchase_orders |-> c.purchase_orders,
       matched_pairs |-> r.pairs,
       unmatched_inv |-> ui,
       unmatched_po |-> up] :
      ui \in ListsOf(DictKeys(c.invoices) \ r.inv),
      up \in ListsOf(DictKeys(c.purchase_orders) \ r.po) }

DocNumbers(pairs) == {pairs[i].doc_number : i \in 1..Len(pairs)}

\* the second pass run after the first has appended the pairs exact
AfterExact(c, exact) ==
    FuzzyRuns(DictKeys(c.invoices) \ DocNumbers(exact),
              DictKeys(c.purchase_orders) \ DocNumbers(exact),
              c.invoices, c.purchase_orders,
              [pairs |-> exact, inv |-> DocNumbers(exact),
               po |-> DocNumbers(exact)])

\* the matching passes and the return, on the dicts c
Matching(c) ==
    IF c.raised THEN {Raised}
    ELSE UNION { Returns(c, r) :
                 r \in AfterExact(c, ExactPairs(c.invoices, c.purchase_orders)) }

\* every outcome match_documents(files) can have
MatchOutcomes(files) == Matching(Classified(files))

----------------------------------------------------------------------------
(* The file lists match_documents is called on: up to MaxFiles uploads,    *)
(* all held in memory or all saved under uploads/ (app.py's                *)
(* IN_MEMORY_PROCESSING).                                                  *)

MaxFiles == 3

Pdf == <<".","p","d","f">>
MatchNames == {
    <<"I","N","V","-","1">> \o Pdf,
    <<"I","N","V","-","0","1">> \o Pdf,
    <<"I","N","V","-","2">> \o Pdf,
    <<"P","O","-","1">> \o Pdf,
    <<"p","o","2">> \o Pdf,
    <<"x","1">> \o Pdf,
    <<"I","2">> \o Pdf,
    <<"P","O","-","U0661">> \o Pdf,
    <<"I","N","V","-","U0660","U0661">> \o Pdf,
    <<"I","N","V">> \o Pdf,
    <<"P","O","-","1","2">> \o Pdf,
    <<"P","O","-","I","N","V","-","1">> \o Pdf }

UploadsDir == <<"u","p","l","o","a","d","s","/">>

\* process_file_in_memory: (buffer, name)
MemRef(name) == [tuple |-> TRUE, str |-> name]
\* save_upload_file: os.path.join(save_dir, name)
PathRef(name) == [tuple |-> FALSE, str |-> UploadsDir \o name]

NameLists == UNION {[1..k -> MatchNames] : k \in 0..MaxFiles}

NoOutcome == [raised |-> FALSE, invoices |-> <<>>, purchase_orders |-> <<>>,
              matched_pairs |-> <<>>, unmatched_inv |-> <<>>, unmatched_po |-> <<>>]

XIdle == filename = <<>> /\ doc_number = None /\ xpc = "idle"
MIdle == files_data = <<>> /\ mres = NoOutcome /\ mpc = "idle"

MInit ==
    /\ \E names \in NameLists :
          \/ files_data = [i \in 1..Len(names) |-> MemRef(names[i])]
          \/ files_data = [i \in 1..Len(names) |-> PathRef(names[i])]
    /\ mres = NoOutcome
    /\ mpc = "call"

\* matched_pairs, unmatched_inv, unmatched_po = match_documents(files_data)
MatchCall ==
    /\ mpc = "call"
    /\ mres' \in MatchOutcomes(files_data)
    /\ mpc' = "ret"
    /\ UNCHANGED files_data

----------------------------------------------------------------------------
(* compare_documents.  An amount is a fixed-point number counted in        *)
(* thousandths; a value is an amount or None; a field map is a function    *)
(* from some of the field names to values.                                 *)

NoValue == [some |-> FALSE, amount |-> 0]
Amt(a) == [some |-> TRUE, amount |-> a]

\* 0.01
Tolerance == 10

fields_to_compare == <<"TotalTax", "SubTotal", "InvoiceTotal">>

Abs(x) == IF x < 0 THEN -x ELSE x

\* ValueOf with a missing or None value read as the amount 0
ValueOf_ZeroDefault(data, field) ==
    IF field \in DOMAIN data /\ data[field].some THEN data[field] ELSE Amt(0)

\* the value the loop body reads from a map: data[field] when field is in
\* data and is not None, else None
ValueOf(data, field) ==
    IF field \in DOMAIN data /\ data[field].some THEN data[field] ELSE NoValue

\* the comparison with a difference of exactly 0.01 accepted
ValuesMatch_Inclusive(invoice_value, po_value) ==
    /\ invoice_value.some
    /\ po_value.some
    /\ Abs(invoice_value.amount - po_value.amount) <= Tolerance

\* match = ...: both values present and abs(float(a) - float(b)) < 0.01
ValuesMatch(invoice_value, po_value) ==
    /\ invoice_value.some
    /\ po_value.some
    /\ Abs(invoice_value.amount - po_value.amount) < Tolerance

\* the dict appended to results for one field
FieldComparison(field, invoice_value, po_value) ==
    [field |-> field, invoice_value |-> invoice_value, po_value |-> po_value,
     match |-> ValuesMatch(invoice_value, po_value)]

compare_documents(inv_map, po_map) ==
    [i \in 1..Len(fields_to_compare) |->
        FieldComparison(fields_to_compare[i],
                        ValueOf(inv_map, fields_to_compare[i]),
                        ValueOf(po_map, fields_to_compare[i]))]

\* the amounts compared: 100.000, 100.009 and 100.010
Amounts == {100000, 100009, 100010}
FieldNames == {"InvoiceTotal", "SubTotal", "TotalTax"}
Values == {NoValue} \cup {Amt(a) : a \in Amounts}
\* every map from some of the field names to values
FieldMaps == UNION {[D -> Values] : D \in SUBSET FieldNames}

CInit ==
    /\ invoice_data \in FieldMaps
    /\ po_data \in FieldMaps
    /\ results = <<>>
    /\ cpc = "call"

CIdle == invoice_data = <<>> /\ po_data = <<>> /\ results = <<>> /\ cpc = "idle"

\* results = compare_documents(invoice_data, po_data)
CompareCall ==
    /\ cpc = "call"
    /\ results' = compare_documents(invoice_data, po_data)
    /\ cpc' = "ret"
    /\ UNCHANGED <<invoice_data, po_data>>

----------------------------------------------------------------------------
(* extract_document_fields, seen from process_document_pairs: the service  *)
(* answers with an error, with a result without documents, or with a       *)
(* document whose fields carry currency amounts.                           *)

target_fields == <<"InvoiceTotal", "SubTotal", "TotalTax">>

ErrorResponse == [kind |-> "error", fields |-> <<>>]
NoDocuments == [kind |-> "no_documents", fields |-> <<>>]
Document(fields) == [kind |-> "document", fields |-> fields]

\* the dict built from result.documents[0]: a field the document lacks is None
ExtractedFields(fields) ==
    [f \in {target_fields[i] : i \in 1..Len(target_fields)} |->
        IF f \in DOMAIN fields THEN Amt(fields[f]) ELSE NoValue]

\* the value extract_document_fields returns; it raises nothing: an error
\* of the client, of open() or of the service is caught and {} returned
extract_document_fields(response) ==
    IF response.kind = "document" THEN ExtractedFields(response.fields)
    ELSE <<>>

\* the documents the service reads: subtotal and total 100.000, and the
\* same with total 100.010 and a tax
DocA == [f \in {"SubTotal", "InvoiceTotal"} |-> 100000]
DocB == [f \in FieldNames |->
            IF f = "InvoiceTotal" THEN 100010
            ELSE IF f = "SubTotal" THEN 100000 ELSE 5000]
Responses == {ErrorResponse, NoDocuments, Document(DocA), Document(DocB)}

----------------------------------------------------------------------------
(* process_document_pairs                                                  *)

MaxPairs == 2
MaxBatch == 2
MaxUnlinkErrors == 1

DigitChar(i) ==
    CASE i = 1 -> "1" [] i = 2 -> "2" [] i = 3 -> "3" [] i = 4 -> "4"
      [] i = 5 -> "5" [] OTHER -> "9"

InvoiceName(i) == <<"I","N","V","-", DigitChar(i)>> \o Pdf
PoName(i) == <<"P","O","-", DigitChar(i)>> \o Pdf

Ref(is_tuple, name) == IF is_tuple THEN MemRef(name) ELSE PathRef(name)

\* the i-th pair of a list, each side in memory or saved
PairAt(i, inv_tuple, po_tuple) ==
    MatchedPair(Ref(inv_tuple, InvoiceName(i)), Ref(po_tuple, PoName(i)),
                <<DigitChar(i)>>)

\* lists of pairs with different document numbers
DistinctPairs ==
    UNION { { [i \in 1..n |-> PairAt(i, it[i], pt[i])] :
              it \in [1..n -> BOOLEAN], pt \in [1..n -> BOOLEAN] }
            : n \in 0..MaxPairs }

\* lists holding one pair (the same dict) several times
RepeatedPairs ==
    UNION { { [i \in 1..n |-> PairAt(1, it, pt)] :
              it \in BOOLEAN, pt \in BOOLEAN }
            : n \in 2..MaxPairs }

PairLists == DistinctPairs \cup RepeatedPairs

total_pairs == Len(matched_pairs)
\* the number of batches rounded down instead of up
total_batches_Floor == total_pairs \div batch_size

\* math.ceil(total_pairs / batch_size)
total_batches == (total_pairs + batch_size - 1) \div batch_size
start_idx == batch_idx * batch_size
end_idx == IF start_idx + batch_size < total_pairs
           THEN start_idx + batch_size ELSE total_pairs
\* the pair the inner loop is at
pair == matched_pairs[pair_idx + 1]

PInit ==
    /\ matched_pairs \in PairLists
    /\ batch_size \in 1..MaxBatch
    /\ comparison_results = <<>>
    /\ temp_files = <<>>
    /\ batch_idx = 0
    /\ pair_idx = 0
    /\ ppc = "batch"
    /\ raising = FALSE
    /\ disk = {}
    /\ n_tmp = 0
    /\ visits = <<>>
    /\ calls = <<>>
    /\ extract_errors = {}
    /\ answers = <<>>
    /\ unlink_errors = 0

PIdle ==
    /\ matched_pairs = <<>> /\ batch_size = 1 /\ comparison_results = <<>>
    /\ temp_files = <<>> /\ batch_idx = 0 /\ pair_idx = 0 /\ ppc = "idle"
    /\ raising = FALSE /\ disk = {} /\ n_tmp = 0 /\ visits = <<>>
    /\ calls = <<>> /\ extract_errors = {} /\ answers = <<>>
    /\ unlink_errors = 0

\* for batch_idx in range(total_batches): the next batch
BatchBegin ==
    /\ ppc = "batch"
    /\ UNCHANGED <<xvars, mvars, cvars, rvars, avars, evars>>
    /\ batch_idx < total_batches
    /\ pair_idx' = start_idx
    /\ ppc' = "pair"
    /\ UNCHANGED <<matched_pairs, batch_size, comparison_results, temp_files,
                   batch_idx, raising, disk, n_tmp, visits, calls,
                   extract_errors, answers, unlink_errors>>

\* the outer loop is exhausted: on to the finally block
LoopEnd ==
    /\ ppc = "batch"
    /\ UNCHANGED <<xvars, mvars, cvars, rvars, avars, evars>>
    /\ batch_idx = total_batches
    /\ ppc' = "finally"
    /\ UNCHANGED <<matched_pairs, batch_size, comparison_results, temp_files,
                   batch_idx, pair_idx, raising, disk, n_tmp, visits, calls,
                   extract_errors, answers, unlink_errors>>

\* the inner loop takes its next pair
Visit == visits' = Append(visits, [batch |-> batch_idx + 1, index |-> pair_idx + 1])

\* an exception leaves both loops for the finally block
Raise == ppc' = "finally" /\ raising' = TRUE

\* get_temp_file_path twice and the two appends.  NamedTemporaryFile
\* (delete=False) may raise before the file exists, tmp.write may raise
\* once it does; the file then stays, and no path has been appended yet.
Materialize ==
    /\ ppc = "pair"
    /\ UNCHANGED <<xvars, mvars, cvars, rvars, avars, evars>>
    /\ pair_idx < end_idx
    /\ pair.invoice.tuple /\ pair.purchase_order.tuple
    /\ Visit
    /\ \/ /\ disk' = disk \cup {n_tmp + 1, n_tmp + 2}
          /\ n_tmp' = n_tmp + 2
          /\ temp_files' = temp_files \o <<n_tmp + 1, n_tmp + 2>>
          /\ ppc' = "extract"
          /\ UNCHANGED raising
       \/ /\ \E made \in 0..2, kept \in 0..2 :
                /\ kept \in {made, made + 1}
                /\ kept <= 2
                /\ made < 2
                /\ disk' = disk \cup (n_tmp + 1)..(n_tmp + kept)
                /\ n_tmp' = n_tmp + kept
          /\ Raise
          /\ UNCHANGED temp_files
    /\ UNCHANGED <<matched_pairs, batch_size, comparison_results, batch_idx,
                   pair_idx, calls, extract_errors, answers, unlink_errors>>

\* an in-memory invoice with a path purchase order: unpacking the path as
\* (po_content, po_filename) raises ValueError; a path invoice with an
\* in-memory purchase order: os.path.basename(po_data) raises TypeError
MixedPair ==
    /\ ppc = "pair"
    /\ UNCHANGED <<xvars, mvars, cvars, rvars, avars, evars>>
    /\ pair_idx < end_idx
    /\ pair.invoice.tuple # pair.purchase_order.tuple
    /\ Visit
    /\ Raise
    /\ UNCHANGED <<matched_pairs, batch_size, comparison_results, temp_files,
                   batch_idx, pair_idx, disk, n_tmp, calls, extract_errors, answers,
                   unlink_errors>>

\* two paths: the filenames are their basenames, nothing is materialized
PathPair ==
    /\ ppc = "pair"
    /\ UNCHANGED <<xvars, mvars, cvars, rvars, avars, evars>>
    /\ pair_idx < end_idx
    /\ ~pair.invoice.tuple /\ ~pair.purchase_order.tuple
    /\ Visit
    /\ ppc' = "extract"
    /\ UNCHANGED <<matched_pairs, batch_size, comparison_results, temp_files,
                   batch_idx, pair_idx, raising, disk, n_tmp, calls,
                   extract_errors, answers, unlink_errors>>

\* the AND taken over every field comparison, the absent ones included
AllMatched_CountAbsent(field_comparisons) ==
    \A i \in 1..Len(field_comparisons) : field_comparisons[i].match

\* all(result['match'] for result in field_comparisons
\*     if result['invoice_value'] is not None and result['po_value'] is not None)
AllMatched(field_comparisons) ==
    \A i \in 1..Len(field_comparisons) :
        (field_comparisons[i].invoice_value.some /\ field_comparisons[i].po_value.some)
            => field_comparisons[i].match

\* the dict appended to comparison_results
ComparisonResult(p, field_comparisons) ==
    [doc_number |-> p.doc_number,
     invoice_file |-> FileBasename(p.invoice),
     po_file |-> FileBasename(p.purchase_order),
     field_comparisons |-> field_comparisons,
     overall_match |-> AllMatched(field_comparisons)]

\* current_batch.index(pair): the first position of an equal pair
IndexInBatch ==
    MinOf({k \in 0..(end_idx - start_idx - 1) :
              matched_pairs[start_idx + k + 1] = pair})

\* the two extract_document_fields calls (neither raises, so the except
\* clause is never entered), compare_documents, the append and the
\* status callback
ExtractCompare ==
    /\ ppc = "extract"
    /\ UNCHANGED <<xvars, mvars, cvars, rvars, avars, evars>>
    /\ \E ri \in Responses, rp \in Responses :
          /\ comparison_results' =
                Append(comparison_results,
                       ComparisonResult(pair,
                           compare_documents(extract_document_fields(ri),
                                             extract_document_fields(rp))))
          /\ extract_errors' =
                IF ri.kind = "error" \/ rp.kind = "error"
                THEN extract_errors \cup {pair_idx + 1} ELSE extract_errors
          /\ answers' = Append(answers, [invoice |-> ri, po |-> rp])
    /\ calls' = Append(calls, <<batch_idx + 1, total_batches,
                                start_idx + IndexInBatch + 1, total_pairs>>)
    /\ pair_idx' = pair_idx + 1
    /\ ppc' = "pair"
    /\ UNCHANGED <<matched_pairs, batch_size, temp_files, batch_idx, raising,
                   disk, n_tmp, visits, unlink_errors>>

\* Cleanup giving up at the first unlink that raises
Cleanup_StopAtFailure(paths, failed) ==
    /\ failed \subseteq {paths[i] : i \in 1..Len(paths)} \cap disk
    /\ unlink_errors + Cardinality(failed) <= MaxUnlinkErrors
    /\ disk' = IF failed = {} THEN disk \ {paths[i] : i \in 1..Len(paths)}
               ELSE disk
    /\ unlink_errors' = unlink_errors + Cardinality(failed)

\* Cleanup unlinking nothing
Cleanup_KeepFiles(paths, failed) ==
    /\ failed \subseteq {paths[i] : i \in 1..Len(paths)} \cap disk
    /\ unlink_errors + Cardinality(failed) <= MaxUnlinkErrors
    /\ disk' = disk
    /\ unlink_errors' = unlink_errors + Cardinality(failed)

\* cleanup_temp_files(paths): every path that exists is unlinked; an unlink
\* that raises leaves its file and the loop goes on.  failed is the set of
\* paths whose unlink raises.
Cleanup(paths, failed) ==
    /\ failed \subseteq {paths[i] : i \in 1..Len(paths)} \cap disk
    /\ unlink_errors + Cardinality(failed) <= MaxUnlinkErrors
    /\ disk' = disk \ ({paths[i] : i \in 1..Len(paths)} \ failed)
    /\ unlink_errors' = unlink_errors + Cardinality(failed)

\* the inner loop is exhausted: gc.collect(), and the batch's cleanup
BatchEnd ==
    /\ ppc = "pair"
    /\ UNCHANGED <<xvars, mvars, cvars, rvars, avars, evars>>
    /\ pair_idx = end_idx
    /\ \E failed \in SUBSET disk : Cleanup(temp_files, failed)
    /\ temp_files' = <<>>
    /\ batch_idx' = batch_idx + 1
    /\ ppc' = "batch"
    /\ UNCHANGED <<matched_pairs, batch_size, comparison_results, pair_idx,
                   raising, n_tmp, visits, calls, extract_errors, answers>>

\* finally: the paths still tracked are cleaned up, then the call returns
\* comparison_results or the exception goes on to the caller
Finally ==
    /\ ppc = "finally"
    /\ UNCHANGED <<xvars, mvars, cvars, rvars, avars, evars>>
    /\ \E failed \in SUBSET disk : Cleanup(temp_files, failed)
    /\ ppc' = IF raising THEN "raised" ELSE "returned"
    /\ UNCHANGED <<matched_pairs, batch_size, comparison_results, temp_files,
                   batch_idx, pair_idx, raising, n_tmp, visits, calls,
                   extract_errors, answers>>

----------------------------------------------------------------------------
(* generate_comparison_report.  A row is a dict, the list of its items     *)
(* [k, v] in insertion order; a DataFrame is its column labels and the     *)
(* rows' values.                                                           *)

\* the row with the result's overall_match replaced by the field's match
Row_FieldMatch(result, field_comp) ==
    << [k |-> "Document #", v |-> result.doc_number],
       [k |-> "Invoice", v |-> result.invoice_file],
       [k |-> "PO", v |-> result.po_file],
       [k |-> "Field", v |-> field_comp.field],
       [k |-> "Invoice Value", v |-> field_comp.invoice_value],
       [k |-> "PO Value", v |-> field_comp.po_value],
       [k |-> "Match", v |-> field_comp.match],
       [k |-> "Overall Match", v |-> field_comp.match] >>

\* row = {...}
Row(result, field_comp) ==
    << [k |-> "Document #", v |-> result.doc_number],
       [k |-> "Invoice", v |-> result.invoice_file],
       [k |-> "PO", v |-> result.po_file],
       [k |-> "Field", v |-> field_comp.field],
       [k |-> "Invoice Value", v |-> field_comp.invoice_value],
       [k |-> "PO Value", v |-> field_comp.po_value],
       [k |-> "Match", v |-> field_comp.match],
       [k |-> "Overall Match", v |-> result.overall_match] >>

\* the inner loop: the rows of one result
RowsOf(result) ==
    [j \in 1..Len(result.field_comparisons) |->
        Row(result, result.field_comparisons[j])]

\* the outer loop: report_rows
RECURSIVE ReportRows(_)
ReportRows(rs) ==
    IF rs = <<>> THEN <<>> ELSE RowsOf(Head(rs)) \o ReportRows(Tail(rs))

\* pd.DataFrame(rows) on dicts with the same keys: the columns are the
\* dicts' keys in their order; built from no dict, the frame has no column
DataFrame(rows) ==
    [columns |-> IF rows = <<>> THEN <<>>
                 ELSE [j \in 1..Len(rows[1]) |-> rows[1][j].k],
     data |-> [i \in 1..Len(rows) |->
                  [j \in 1..Len(rows[i]) |-> rows[i][j].v]]]

generate_comparison_report(rs) == DataFrame(ReportRows(rs))

MaxResults == 2

\* the results reports are built from: those of two path pairs whose
\* documents the service reads or finds empty
ReportResults ==
    { ComparisonResult(PairAt(i, FALSE, FALSE),
                       compare_documents(extract_document_fields(ri),
                                         extract_document_fields(rp))) :
      i \in 1..2, ri \in Responses \ {ErrorResponse},
      rp \in Responses \ {ErrorResponse} }

ResultLists == UNION {[1..n -> ReportResults] : n \in 0..MaxResults}

NoFrame == [columns |-> <<>>, data |-> <<>>]

RInit == report_input \in ResultLists /\ df = NoFrame /\ rpc = "call"
RIdle == report_input = <<>> /\ df = NoFrame /\ rpc = "idle"

\* df = generate_comparison_report(report_input)
ReportCall ==
    /\ rpc = "call"
    /\ df' = generate_comparison_report(report_input)
    /\ rpc' = "ret"
    /\ UNCHANGED report_input

----------------------------------------------------------------------------
(* The Document Validation page of app.py                                  *)

NoSession ==
    [comparison_results |-> [some |-> FALSE, list |-> <<>>],
     comparison_df |-> [some |-> FALSE, frame |-> NoFrame],
     unmatched_invoices |-> <<>>, unmatched_pos |-> <<>>,
     matched_pairs |-> <<>>]

NoCalls == [match |-> 0, process |-> 0, report |-> 0]

AIdle ==
    /\ session = NoSession
    /\ apc = "off"
    /\ app_calls = NoCalls
    /\ in_memory = TRUE
    /\ uploaded_files = <<>>

MaxUploads == 2

\* the names of the files uploaded
AppNames == {
    <<"I","N","V","-","1">> \o Pdf,
    <<"P","O","-","1">> \o Pdf,
    <<"I","N","V","-","2">> \o Pdf,
    <<"x","1">> \o Pdf }

UploadLists == UNION {[1..k -> AppNames] : k \in 0..MaxUploads}

\* st.session_state.files_data (process_file_in_memory) or
\* st.session_state.saved_files (save_upload_file) for the uploaded names
FilesOf(names, mem) ==
    [i \in 1..Len(names) |-> IF mem THEN MemRef(names[i]) ELSE PathRef(names[i])]

\* batch_size=5, the default of process_document_pairs and the value the
\* handler passes
DefaultBatchSize == 5

AInit ==
    /\ in_memory \in BOOLEAN
    /\ uploaded_files \in UploadLists
    /\ files_data = FilesOf(uploaded_files, in_memory)
    /\ mres = NoOutcome
    /\ mpc = "idle"
    /\ session = NoSession
    /\ apc = "idle"
    /\ app_calls = NoCalls

\* process_document_pairs is entered
PEnter(pairs, size) ==
    /\ matched_pairs' = pairs
    /\ batch_size' = size
    /\ comparison_results' = <<>>
    /\ temp_files' = <<>>
    /\ batch_idx' = 0
    /\ pair_idx' = 0
    /\ ppc' = "batch"
    /\ raising' = FALSE
    /\ disk' = {}
    /\ n_tmp' = 0
    /\ visits' = <<>>
    /\ calls' = <<>>
    /\ extract_errors' = {}
    /\ answers' = <<>>
    /\ unlink_errors' = 0

\* no call of process_document_pairs is in progress in the script run
PLeave ==
    /\ matched_pairs' = <<>>
    /\ batch_size' = 1
    /\ comparison_results' = <<>>
    /\ temp_files' = <<>>
    /\ batch_idx' = 0
    /\ pair_idx' = 0
    /\ ppc' = "idle"
    /\ raising' = FALSE
    /\ disk' = {}
    /\ n_tmp' = 0
    /\ visits' = <<>>
    /\ calls' = <<>>
    /\ extract_errors' = {}
    /\ answers' = <<>>
    /\ unlink_errors' = 0

\* the test of the handler on the pairs returned, made never to stop
NoPairs_Never(pairs) == FALSE

\* if not matched_pairs:
NoPairs(pairs) == pairs = <<>>

\* what follows match_documents in the handler: the exception goes on,
\* st.stop() on no pair, or process_document_pairs is called
AfterMatch(o) ==
    IF o.raised
    THEN /\ apc' = "failed"
         /\ app_calls' = [NoCalls EXCEPT !.match = 1]
         /\ PLeave
    ELSE IF NoPairs(o.matched_pairs)
    THEN /\ apc' = "stopped"
         /\ app_calls' = [NoCalls EXCEPT !.match = 1]
         /\ PLeave
    ELSE /\ apc' = "processing"
         /\ app_calls' = [NoCalls EXCEPT !.match = 1, !.process = 1]
         /\ PEnter(o.matched_pairs, DefaultBatchSize)

\* Process Files is clicked: the stored results are shown, or
\* match_documents is called on the files of the session
ProcessClick ==
    /\ apc \notin {"off", "processing"}
    /\ files_data # <<>>
    /\ \/ /\ session.comparison_results.some
          /\ apc' = "done"
          /\ app_calls' = NoCalls
          /\ mres' = NoOutcome
          /\ mpc' = "idle"
          /\ PLeave
       \/ /\ ~session.comparison_results.some
          /\ \E o \in MatchOutcomes(files_data) :
                /\ mres' = o
                /\ AfterMatch(o)
          /\ mpc' = "ret"
    /\ UNCHANGED <<files_data, session, in_memory, uploaded_files, xvars, cvars,
                   rvars, evars>>

\* process_document_pairs has returned: the results, the unmatched lists,
\* the pairs and the report are stored in the session
StoreResults ==
    /\ apc = "processing"
    /\ ppc = "returned"
    /\ session' =
          [comparison_results |-> [some |-> TRUE, list |-> comparison_results],
           comparison_df |->
               [some |-> TRUE,
                frame |-> generate_comparison_report(comparison_results)],
           unmatched_invoices |-> mres.unmatched_inv,
           unmatched_pos |-> mres.unmatched_po,
           matched_pairs |-> matched_pairs]
    /\ app_calls' = [app_calls EXCEPT !.report = 1]
    /\ apc' = "done"
    /\ UNCHANGED <<in_memory, uploaded_files, xvars, mvars, cvars, pvars, rvars,
                   evars>>

\* process_document_pairs has raised: the exception ends the script run
ProcessFailed ==
    /\ apc = "processing"
    /\ ppc = "raised"
    /\ apc' = "failed"
    /\ UNCHANGED <<session, app_calls, in_memory, uploaded_files, xvars, mvars,
                   cvars, pvars, rvars, evars>>

\* the uploader holds other files, not none: the list differs from
\* last_uploaded_files, the latest non-empty list it held (a file uploaded
\* again is a new UploadedFile), the results of the session are cleared
\* and the files read
UploadChange ==
    /\ apc \notin {"off", "processing"}
    /\ \E names \in UploadLists \ {<<>>} :
          /\ names # uploaded_files
          /\ uploaded_files' = names
          /\ files_data' = FilesOf(names, in_memory)
    /\ session' = [session EXCEPT
                      !.comparison_results = NoSession.comparison_results,
                      !.unmatched_invoices = <<>>,
                      !.unmatched_pos = <<>>,
                      !.comparison_df = NoSession.comparison_df]
    /\ apc' = "idle"
    /\ app_calls' = NoCalls
    /\ mres' = NoOutcome
    /\ mpc' = "idle"
    /\ PLeave
    /\ UNCHANGED <<in_memory, xvars, cvars, rvars, evars>>

\* every file is removed from the uploader: uploaded_files is empty, the
\* script run clears nothing and reads nothing, the session keeps its files
\* and its results
ClearUploads ==
    /\ apc \notin {"off", "processing"}
    /\ uploaded_files # <<>>
    /\ uploaded_files' = <<>>
    /\ apc' = "idle"
    /\ app_calls' = NoCalls
    /\ mres' = NoOutcome
    /\ mpc' = "idle"
    /\ PLeave
    /\ UNCHANGED <<files_data, session, in_memory, xvars, cvars, rvars, evars>>

\* Reset is clicked: the session is cleared; st.rerun() reads the files of
\* the uploader again
Reset ==
    /\ apc \notin {"off", "processing"}
    /\ session' = NoSession
    /\ files_data' = FilesOf(uploaded_files, in_memory)
    /\ apc' = "idle"
    /\ app_calls' = NoCalls
    /\ mres' = NoOutcome
    /\ mpc' = "idle"
    /\ PLeave
    /\ UNCHANGED <<in_memory, uploaded_files, xvars, cvars, rvars, evars>>

----------------------------------------------------------------------------
(* estimate_memory_usage (utils.py).  Sizes are counted in bytes; the      *)
(* estimate is total * 1.3, kept here as the exact fraction total * 13 /   *)
(* 10.  total_size_mb and estimated_size_mb, the two figures rounded for   *)
(* display, are not kept.                                                  *)

\* 1024 * 1024
MiB == 1048576

\* math.ceil(a / b) of two non-negative integers, b positive
CeilDiv(a, b) == IF a % b = 0 THEN a \div b ELSE a \div b + 1

\* sum(file.size for file in uploaded_files)
RECURSIVE SumOf(_)
SumOf(sizes) == IF sizes = <<>> THEN 0 ELSE Head(sizes) + SumOf(Tail(sizes))

\* math.ceil(estimated_size_mb / 100) for a total of total_size_bytes
HundredsOfMb(total_size_bytes) == CeilDiv(total_size_bytes * 13, 10 * MiB * 100)

\* estimated_size_mb < 500
IsSafe(total_size_bytes) == (total_size_bytes * 13) \div 10 < 500 * MiB

\* ZeroDivisionError leaves the function
EstimateRaised ==
    [raised |-> TRUE, total_files |-> 0, is_safe |-> FALSE,
     recommended_batch_size |-> 0]

\* max(1, min(10, math.ceil(n / hundreds))); n / 0 raises
RecommendedBatchSize(n, hundreds) ==
    MaxOf({1, MinOf({10, CeilDiv(n, hundreds)})})

\* the dict returned for sizes whose estimate spans hundreds x 100 MB
MemoryStats(sizes, hundreds) ==
    IF hundreds = 0 THEN EstimateRaised
    ELSE [raised |-> FALSE,
          total_files |-> Len(sizes),
          is_safe |-> IsSafe(SumOf(sizes)),
          recommended_batch_size |-> RecommendedBatchSize(Len(sizes), hundreds)]

estimate_memory_usage(sizes) == MemoryStats(sizes, HundredsOfMb(SumOf(sizes)))

MaxSizedFiles == 3
MaxManyFiles == 12

\* the sizes of the files: empty, one byte, 1 MiB, 30 MiB
FileSizes == {0, 1, MiB, 30 * MiB}

\* the lists estimate_memory_usage is called on: up to MaxSizedFiles files
\* of any of the sizes, and up to MaxManyFiles files that are all empty or
\* all of one byte
SizeLists ==
    UNION {[1..n -> FileSizes] : n \in 0..MaxSizedFiles}
        \cup {[i \in 1..n |-> b] : n \in 1..MaxManyFiles, b \in {0, 1}}

NoStats ==
    [raised |-> FALSE, total_files |-> 0, is_safe |-> FALSE,
     recommended_batch_size |-> 0]

EInit == file_sizes \in SizeLists /\ memory_stats = NoStats /\ epc = "call"
EIdle == file_sizes = <<>> /\ memory_stats = NoStats /\ epc = "idle"

\* memory_stats = estimate_memory_usage(uploaded_files)
EstimateCall ==
    /\ epc = "call"
    /\ memory_stats' = estimate_memory_usage(file_sizes)
    /\ epc' = "ret"
    /\ UNCHANGED file_sizes

----------------------------------------------------------------------------
(* Specifications                                                          *)

InitExtract == XInit /\ MIdle /\ CIdle /\ PIdle /\ RIdle /\ AIdle /\ EIdle
NextExtract ==
    ExtractCall /\ UNCHANGED <<mvars, cvars, pvars, rvars, avars, evars>>
SpecExtract == InitExtract /\ [][NextExtract]_vars

InitMatch == MInit /\ XIdle /\ CIdle /\ PIdle /\ RIdle /\ AIdle /\ EIdle
NextMatch ==
    MatchCall /\ UNCHANGED <<xvars, cvars, pvars, rvars, avars, evars>>
SpecMatch == InitMatch /\ [][NextMatch]_vars

InitCompare == CInit /\ XIdle /\ MIdle /\ PIdle /\ RIdle /\ AIdle /\ EIdle
NextCompare ==
    CompareCall /\ UNCHANGED <<xvars, mvars, pvars, rvars, avars, evars>>
SpecCompare == InitCompare /\ [][NextCompare]_vars

InitReport == RInit /\ XIdle /\ MIdle /\ CIdle /\ PIdle /\ AIdle /\ EIdle
NextReport ==
    ReportCall /\ UNCHANGED <<xvars, mvars, cvars, pvars, avars, evars>>
SpecReport == InitReport /\ [][NextReport]_vars

InitApp == AInit /\ XIdle /\ CIdle /\ PIdle /\ RIdle /\ EIdle
\* the pairs match_documents returns are never mixed: MixedPair has no
\* step here
NextApp ==
    \/ ProcessClick
    \/ BatchBegin
    \/ LoopEnd
    \/ Materialize
    \/ PathPair
    \/ ExtractCompare
    \/ BatchEnd
    \/ Finally
    \/ StoreResults
    \/ ProcessFailed
    \/ UploadChange
    \/ ClearUploads
    \/ Reset
SpecApp == InitApp /\ [][NextApp]_vars

InitEstimate ==
    EInit /\ XIdle /\ MIdle /\ CIdle /\ PIdle /\ RIdle /\ AIdle
NextEstimate ==
    EstimateCall /\ UNCHANGED <<xvars, mvars, cvars, pvars, rvars, avars>>
SpecEstimate == InitEstimate /\ [][NextEstimate]_vars

Init == PInit /\ XIdle /\ MIdle /\ CIdle /\ RIdle /\ AIdle /\ EIdle
Next ==
    \/ BatchBegin
    \/ LoopEnd
    \/ Materialize
    \/ MixedPair
    \/ PathPair
    \/ ExtractCompare
    \/ BatchEnd
    \/ Finally
Spec == Init /\ [][Next]_vars

----------------------------------------------------------------------------
(* Claims about extract_document_number (SpecExtract)                      *)

\* a digit that is a zero, in any script
IsZero(c) == c \in Digits /\ DigitVal(c) = 0

\* C9: every non-absent result of extract_document_number is a non-empty
\* string of decimal digits without a leading zero, unless it is exactly "0"
C9_NormalizedIdentity ==
    (xpc = "ret" /\ doc_number.present) =>
        /\ doc_number.str # <<>>
        /\ \A i \in 1..Len(doc_number.str) : doc_number.str[i] \in Digits
        /\ (IsZero(doc_number.str[1]) => doc_number.str = <<"0">>)

\* the same for filenames whose digits are all ASCII
C9_AsciiOnly ==
    (\A i \in 1..Len(filename) : filename[i] \notin UnicodeDigits)
        => C9_NormalizedIdentity

----------------------------------------------------------------------------
(* Claims about match_documents (SpecMatch)                                *)

Returned == mpc = "ret" /\ ~mres.raised
Elems(q) == {q[i] : i \in 1..Len(q)}
Count(q, x) == Cardinality({i \in 1..Len(q) : q[i] = x})
PairIdx == 1..Len(mres.matched_pairs)

\* the identity of a file: the document number of its basename
IdentityOf(file_data) == extract_document_number(FileBasename(file_data)).str

\* the identities consumed by a pair, by side
ConsumedInv == {mres.matched_pairs[i].doc_number : i \in PairIdx}
ConsumedPo == {IdentityOf(mres.matched_pairs[i].purchase_order) : i \in PairIdx}

\* C6: one pair, numbered from the invoice side, for every identity in both
\* mappings; every identity not consumed by a pair is once in its side's
\* unmatched list; no consumed identity is in an unmatched list
C6_PairsAndUnmatched ==
    Returned =>
        /\ \A d \in DictKeys(mres.invoices) \cap DictKeys(mres.purchase_orders) :
              /\ Cardinality({i \in PairIdx :
                                 mres.matched_pairs[i].doc_number = d}) = 1
              /\ \E i \in PairIdx :
                    mres.matched_pairs[i] =
                        MatchedPair(DictGet(mres.invoices, d),
                                    DictGet(mres.purchase_orders, d), d)
        /\ \A d \in DictKeys(mres.invoices) \ ConsumedInv :
              Count(mres.unmatched_inv, d) = 1
        /\ \A d \in DictKeys(mres.purchase_orders) \ ConsumedPo :
              Count(mres.unmatched_po, d) = 1
        /\ \A d \in ConsumedInv \cup ConsumedPo :
              d \notin Elems(mres.unmatched_inv) \cup Elems(mres.unmatched_po)

\* match_documents(["INV-1.pdf", "INV-2.pdf", "PO-1.pdf"]) has returned one
\* pair, #1, with unmatched_inv = ["2"] and unmatched_po = []
C6_Witness ==
    /\ Returned
    /\ Len(files_data) = 3
    /\ Len(mres.matched_pairs) = 1
    /\ mres.matched_pairs[1].doc_number = <<"1">>
    /\ mres.unmatched_inv = << <<"2">> >>
    /\ mres.unmatched_po = <<>>

\* the places (pair, side) where a file occurs in the pairs returned
Places(file_data) ==
    {<<i, "invoice">> : i \in {j \in PairIdx :
                                 mres.matched_pairs[j].invoice = file_data}}
    \cup
    {<<i, "purchase_order">> : i \in {j \in PairIdx :
                                 mres.matched_pairs[j].purchase_order = file_data}}

DistinctFiles ==
    \A i, j \in 1..Len(files_data) : i # j => files_data[i] # files_data[j]

\* C7: of distinct files, each is in at most one pair, on one side; an
\* identity in an unmatched list is not the identity of a pair on that side
C7_FileInOnePair ==
    (Returned /\ DistinctFiles) =>
        /\ \A i \in 1..Len(files_data) :
              Cardinality(Places(files_data[i])) <= 1
        /\ Elems(mres.unmatched_inv) \cap ConsumedInv = {}
        /\ Elems(mres.unmatched_po) \cap ConsumedPo = {}

\* three distinct files, two of them paired by the second pass (the
\* identities of the two sides differ), the third reported unmatched
C7_Witness ==
    /\ Returned /\ DistinctFiles
    /\ Len(files_data) = 3
    /\ Len(mres.matched_pairs) = 1
    /\ IdentityOf(mres.matched_pairs[1].purchase_order)
           # mres.matched_pairs[1].doc_number
    /\ Len(mres.unmatched_inv) + Len(mres.unmatched_po) = 1

\* the same names in the other representation
OtherForm(files) ==
    [i \in 1..Len(files) |->
        IF files[i].tuple THEN PathRef(files[i].str)
        ELSE MemRef(Basename(files[i].str))]

\* an outcome with display names in place of the files
ByName(o) ==
    [raised |-> o.raised,
     pairs |-> [i \in 1..Len(o.matched_pairs) |->
                  [invoice |-> FileBasename(o.matched_pairs[i].invoice),
                   purchase_order |-> FileBasename(o.matched_pairs[i].purchase_order),
                   doc_number |-> o.matched_pairs[i].doc_number]],
     unmatched_inv |-> o.unmatched_inv,
     unmatched_po |-> o.unmatched_po]

\* C8: match_documents raises nothing and returns, by display name, an
\* outcome it can also return for the same names in the other
\* representation
C8_SameInEitherForm ==
    mpc = "ret" =>
        /\ ~mres.raised
        /\ ByName(mres) \in {ByName(o) : o \in MatchOutcomes(OtherForm(files_data))}


----------------------------------------------------------------------------
(* Claims about compare_documents (SpecCompare)                            *)

\* the map has the key and its value is not None
Present(data, field) == field \in DOMAIN data /\ data[field].some

\* the two inputs both carry the field and differ by less than 0.01
WithinTolerance(field) ==
    /\ Present(invoice_data, field)
    /\ Present(po_data, field)
    /\ invoice_data[field].amount - po_data[field].amount < 10
    /\ po_data[field].amount - invoice_data[field].amount < 10

\* C5: for any two field maps, maps lacking keys included, compare_documents
\* returns exactly three FieldComparisons, for TotalTax, SubTotal and
\* InvoiceTotal in this order, and each has match true if and only if both
\* values are present and differ by strictly less than 0.01
C5_ThreeInOrderWithinTolerance ==
    cpc = "ret" =>
        /\ Len(results) = 3
        /\ <<results[1].field, results[2].field, results[3].field>>
              = <<"TotalTax", "SubTotal", "InvoiceTotal">>
        /\ \A i \in 1..3 : results[i].match <=> WithinTolerance(results[i].field)

\* a call on a map lacking a key, with a field whose two values differ by
\* exactly 0.01 and is reported a mismatch
C5_Witness ==
    /\ cpc = "ret"
    /\ DOMAIN invoice_data # FieldNames
    /\ \E i \in 1..Len(results) :
          /\ Present(invoice_data, results[i].field)
          /\ Present(po_data, results[i].field)
          /\ Abs(invoice_data[results[i].field].amount
                 - po_data[results[i].field].amount) = 10
          /\ ~results[i].match

----------------------------------------------------------------------------
(* Claims about process_document_pairs (Spec)                              *)

\* the call has ended: it returned or an exception left it
Ended == ppc \in {"returned", "raised"}

InMemoryPairs ==
    \A i \in 1..Len(matched_pairs) :
        matched_pairs[i].invoice.tuple /\ matched_pairs[i].purchase_order.tuple

\* C1: on in-memory pairs, when the call has ended, by a return or by an
\* exception, and no unlink has failed, no temporary file created during
\* the call is left on disk
C1_NoTempFileLeft ==
    (Ended /\ InMemoryPairs /\ unlink_errors = 0) => disk = {}

\* C1 on the calls that return: the files of every pair that was
\* materialized whole are unlinked
C1_WhenReturned ==
    (ppc = "returned" /\ unlink_errors = 0) => disk = {}

\* the results emitted for the i-th input pair
ResultsFor(i) ==
    {k \in 1..Len(comparison_results) :
        comparison_results[k].doc_number = matched_pairs[i].doc_number}

\* C2: a pair with a failed field extraction has no ComparisonResult
C2_FailedPairDropped ==
    \A i \in extract_errors : ResultsFor(i) = {}

\* C2, second half: the pairs after a failed extraction are still visited
C2_LaterPairsProcessed ==
    (ppc = "returned" /\ extract_errors # {}) => Len(visits) = total_pairs

\* C3: no failure while handling one pair aborts the call: the call never
\* ends with an exception
C3_NeverAborts == ppc # "raised"

\* C4: for every ComparisonResult, overall_match is false if and only if
\* some field comparison has both values present and match false
C4_OverallMatch ==
    \A k \in 1..Len(comparison_results) :
        (~comparison_results[k].overall_match) <=>
            \E i \in 1..3 :
                /\ comparison_results[k].field_comparisons[i].invoice_value.some
                /\ comparison_results[k].field_comparisons[i].po_value.some
                /\ ~comparison_results[k].field_comparisons[i].match

\* a failed result, and a passing result with a field absent on one side
C4_Witness ==
    /\ \E k \in 1..Len(comparison_results) :
          ~comparison_results[k].overall_match
    /\ \E k \in 1..Len(comparison_results) :
          /\ comparison_results[k].overall_match
          /\ \E i \in 1..3 :
                /\ comparison_results[k].field_comparisons[i].invoice_value.some
                /\ ~comparison_results[k].field_comparisons[i].po_value.some

\* the i-th visit is of the i-th input pair, in the batch it falls in
VisitsInOrder ==
    \A i \in 1..Len(visits) :
        /\ visits[i].index = i
        /\ visits[i].batch = ((i - 1) \div batch_size) + 1

\* the results are of distinct input pairs, in input order
ResultsInOrder ==
    \A k \in 1..Len(comparison_results), l \in 1..Len(comparison_results) :
        k < l =>
           \E i \in 1..total_pairs, j \in 1..total_pairs :
              /\ i < j
              /\ comparison_results[k].doc_number = matched_pairs[i].doc_number
              /\ comparison_results[l].doc_number = matched_pairs[j].doc_number

\* C10: when the call has ended every input pair has been visited exactly
\* once, in ceil(N / batch_size) contiguous batches in input order, and the
\* results are in input order
C10_EveryPairVisited ==
    Ended =>
        /\ Len(visits) = total_pairs
        /\ VisitsInOrder
        /\ batch_idx = total_batches
        /\ ResultsInOrder

\* C10 on the calls that return
C10_WhenReturned ==
    ppc = "returned" =>
        /\ Len(visits) = total_pairs
        /\ VisitsInOrder
        /\ batch_idx = total_batches
        /\ ResultsInOrder

\* the ComparisonResult of the i-th input pair, given what the service
\* answered for its two documents
ExpectedResult(i) ==
    ComparisonResult(matched_pairs[i],
                     compare_documents(extract_document_fields(answers[i].invoice),
                                       extract_document_fields(answers[i].po)))

\* C11: the list returned is, pair by pair, the comparison of what the
\* extractor answers for the pair's two documents, whatever batch_size is:
\* with a deterministic extractor a run with batch_size = 1 and a run with
\* batch_size >= N return the same results
C11_SameResultsAnyBatchSize ==
    ppc = "returned" =>
        /\ Len(answers) = total_pairs
        /\ comparison_results = [i \in 1..total_pairs |-> ExpectedResult(i)]

\* a call on two pairs returned after two batches of one pair
C11_Witness ==
    /\ ppc = "returned"
    /\ batch_size = 1
    /\ total_pairs = 2
    /\ batch_idx = 2
    /\ Len(comparison_results) = 2

\* the i-th call of the callback is for the i-th input pair
CallbackInOrder ==
    \A i \in 1..Len(calls) :
        /\ calls[i][1] \in 1..total_batches
        /\ calls[i][2] = total_batches
        /\ calls[i][3] = i
        /\ calls[i][4] = total_pairs

\* C12: when the call has ended the callback has been invoked exactly once
\* for each input pair, with batch_index in 1..total_batches and pair_index
\* the pair's position in the input
C12_CallbackOncePerPair ==
    Ended => (Len(calls) = total_pairs /\ CallbackInOrder)

\* C12 on the calls that return
C12_WhenReturned ==
    ppc = "returned" => (Len(calls) = total_pairs /\ CallbackInOrder)

\* C12 on the calls that return, the pairs of the list differing
C12_DistinctPairsReturned ==
    (ppc = "returned" /\ matched_pairs \in DistinctPairs) =>
        (Len(calls) = total_pairs /\ CallbackInOrder)

\* C13: every value extract_document_fields has returned is a map with
\* exactly the keys InvoiceTotal, SubTotal and TotalTax
C13_AllKeysPresent ==
    \A k \in 1..Len(answers) :
        /\ DOMAIN extract_document_fields(answers[k].invoice) = FieldNames
        /\ DOMAIN extract_document_fields(answers[k].po) = FieldNames

\* C13 on the analyses that find a document
C13_DocumentAnswers ==
    \A k \in 1..Len(answers) :
        /\ answers[k].invoice.kind = "document" =>
              DOMAIN extract_document_fields(answers[k].invoice) = FieldNames
        /\ answers[k].po.kind = "document" =>
              DOMAIN extract_document_fields(answers[k].po) = FieldNames

----------------------------------------------------------------------------
(* Claims about generate_comparison_report (SpecReport)                    *)

EightColumns ==
    <<"Document #", "Invoice", "PO", "Field", "Invoice Value", "PO Value",
      "Match", "Overall Match">>

\* C14: called with an empty list, generate_comparison_report returns a
\* table with no row and the eight columns
C14_EmptyReportHasColumns ==
    (rpc = "ret" /\ report_input = <<>>) =>
        (df.data = <<>> /\ df.columns = EightColumns)

\* the number of field comparisons of the first n results
RECURSIVE RowCount(_)
RowCount(n) ==
    IF n = 0 THEN 0
    ELSE RowCount(n - 1) + Len(report_input[n].field_comparisons)

\* the row of the j-th field comparison of the r-th result
RowIs(r, j) ==
    df.data[RowCount(r - 1) + j] =
        << report_input[r].doc_number,
           report_input[r].invoice_file,
           report_input[r].po_file,
           report_input[r].field_comparisons[j].field,
           report_input[r].field_comparisons[j].invoice_value,
           report_input[r].field_comparisons[j].po_value,
           report_input[r].field_comparisons[j].match,
           report_input[r].overall_match >>

OneRowPerFieldComparison ==
    rpc = "ret" =>
        /\ Len(df.data) = RowCount(Len(report_input))
        /\ \A r \in 1..Len(report_input) :
              \A j \in 1..Len(report_input[r].field_comparisons) : RowIs(r, j)

\* C15: the report has exactly one row per (result, field comparison), in
\* result order then field order, each row carrying its result's doc
\* number, invoice name, PO name and overall_match and its field's name,
\* two values and match; the call leaves its input unchanged
C15_OneRowPerFieldComparison ==
    /\ []OneRowPerFieldComparison
    /\ [][report_input' = report_input]_vars

\* a report of two results, one of them failing on one field only
C15_Witness ==
    /\ rpc = "ret"
    /\ Len(report_input) = 2
    /\ Len(df.data) = 6
    /\ \E r \in 1..2 : \E j, l \in 1..3 :
          /\ ~report_input[r].overall_match
          /\ report_input[r].field_comparisons[j].match
          /\ ~report_input[r].field_comparisons[l].match

----------------------------------------------------------------------------
(* Claims about the Document Validation page (SpecApp)                     *)

\* a run that matched and found no pair is stopped, and a stopped run has
\* called neither process_document_pairs nor the extractor, has built no
\* report and leaves comparison_results None
StopsOnNoPairs ==
    /\ (app_calls.match = 1 /\ ~mres.raised /\ mres.matched_pairs = <<>>)
          => apc = "stopped"
    /\ apc = "stopped" =>
          /\ app_calls = [NoCalls EXCEPT !.match = 1]
          /\ mres.matched_pairs = <<>>
          /\ ppc = "idle"
          /\ answers = <<>>
          /\ ~session.comparison_results.some
          /\ ~session.comparison_df.some

\* C16: when match_documents returns no pairs the run stops before
\* process_document_pairs or any extraction call is made, no report is
\* built, and the run leaves the session as it was, comparison_results None
C16_StopsOnNoPairs ==
    /\ []StopsOnNoPairs
    /\ [][apc' = "stopped" => session' = session]_vars

\* a run stopped on no pair, in a session that had stored the pairs of an
\* earlier run on other files
C16_Witness ==
    /\ apc = "stopped"
    /\ files_data # <<>>
    /\ session.matched_pairs # <<>>

----------------------------------------------------------------------------
(* Claims about the passes of match_documents (SpecMatch)                  *)

NumericallyEqual(a, b) == IntParses(a) /\ IntParses(b) /\ IntOf(a) = IntOf(b)

\* the two identities the second pass pairs, as the claim has it
Compatible(a, b) == NumericallyEqual(a, b) \/ IsSubstr(a, b) \/ IsSubstr(b, a)

\* the pairs of the second pass: the two sides' identities differ
FuzzyIdx ==
    {i \in PairIdx : IdentityOf(mres.matched_pairs[i].purchase_order)
                         # mres.matched_pairs[i].doc_number}

\* C17: after the passes no invoice identity is left unmatched while a PO
\* identity numerically equal to it, or containing it or contained in it,
\* is left unmatched too; the pairs of the second pass join such
\* identities, and no PO identity is in two of them
C17_SecondPassPairsLeftovers ==
    Returned =>
        /\ \A a \in Elems(mres.unmatched_inv), b \in Elems(mres.unmatched_po) :
              ~Compatible(a, b)
        /\ \A i \in FuzzyIdx :
              Compatible(mres.matched_pairs[i].doc_number,
                         IdentityOf(mres.matched_pairs[i].purchase_order))
        /\ \A i, j \in FuzzyIdx :
              i # j => IdentityOf(mres.matched_pairs[i].purchase_order)
                          # IdentityOf(mres.matched_pairs[j].purchase_order)

\* C17 with numeric equality as the only test of the second pass
C17_NumericOnly ==
    Returned =>
        /\ \A a \in Elems(mres.unmatched_inv), b \in Elems(mres.unmatched_po) :
              ~NumericallyEqual(a, b)
        /\ \A i \in FuzzyIdx :
              NumericallyEqual(mres.matched_pairs[i].doc_number,
                               IdentityOf(mres.matched_pairs[i].purchase_order))
        /\ \A i, j \in FuzzyIdx :
              i # j => IdentityOf(mres.matched_pairs[i].purchase_order)
                          # IdentityOf(mres.matched_pairs[j].purchase_order)

\* C18: the doc_number of every pair returned is a key of the invoice
\* mapping and of the purchase-order mapping
C18_DocNumberInBothMappings ==
    Returned =>
        \A i \in PairIdx :
            /\ mres.matched_pairs[i].doc_number \in DictKeys(mres.invoices)
            /\ mres.matched_pairs[i].doc_number \in DictKeys(mres.purchase_orders)

\* C18 with each side under its own identity
C18_EachSideInItsMapping ==
    Returned =>
        \A i \in PairIdx :
            /\ mres.matched_pairs[i].doc_number \in DictKeys(mres.invoices)
            /\ IdentityOf(mres.matched_pairs[i].purchase_order)
                  \in DictKeys(mres.purchase_orders)

\* the three mappings after the first loop
FirstLoop == ClassifyAll(files_data, NoDicts)

\* the class the second loop gives an unclassified item, as the claim has it
ResolvedClass(item) ==
    IF DictHas(FirstLoop.invoices, item.k)
          /\ ~DictHas(FirstLoop.purchase_orders, item.k)
    THEN "purchase_order"
    ELSE IF DictHas(FirstLoop.purchase_orders, item.k)
               /\ ~DictHas(FirstLoop.invoices, item.k)
    THEN "invoice"
    ELSE IF GuessInvoice(Upper(FileBasename(item.v))) THEN "invoice"
    ELSE "purchase_order"

\* the unclassified item is filed as the claim says
ItemResolved(item) ==
    /\ ~mres.raised
    /\ IF ResolvedClass(item) = "invoice"
       THEN /\ DictHas(mres.invoices, item.k)
            /\ DictGet(mres.invoices, item.k) = item.v
       ELSE /\ DictHas(mres.purchase_orders, item.k)
            /\ DictGet(mres.purchase_orders, item.k) = item.v
    /\ (DictHas(FirstLoop.invoices, item.k)
           /\ ~DictHas(FirstLoop.purchase_orders, item.k))
          => \E i \in PairIdx :
                mres.matched_pairs[i] =
                    MatchedPair(DictGet(FirstLoop.invoices, item.k), item.v, item.k)
    /\ (DictHas(FirstLoop.purchase_orders, item.k)
           /\ ~DictHas(FirstLoop.invoices, item.k))
          => \E i \in PairIdx :
                mres.matched_pairs[i] =
                    MatchedPair(item.v, DictGet(FirstLoop.purchase_orders, item.k),
                                item.k)

\* C19: an Unclassified file whose identity has an invoice and no purchase
\* order becomes that identity's purchase order and is paired with the
\* invoice (and the other way round); otherwise it is filed by the
\* heuristic on its basename
C19_UnclassifiedResolved ==
    mpc = "ret" =>
        \A k \in 1..Len(FirstLoop.unclassified) :
            ItemResolved(FirstLoop.unclassified[k])

\* C19 on the lists of paths
C19_PathLists ==
    (mpc = "ret" /\ \A i \in 1..Len(files_data) : ~files_data[i].tuple) =>
        \A k \in 1..Len(FirstLoop.unclassified) :
            ItemResolved(FirstLoop.unclassified[k])

HasIdentity(file_data) ==
    extract_document_number(FileBasename(file_data)).present

\* the class of the i-th file: by its name, or, for the unclassified item
\* of its identity, as the second loop files it
ClassOf(i) ==
    IF ~HasIdentity(files_data[i]) THEN "none"
    ELSE IF IsInvoiceName(Lower(FileBasename(files_data[i]))) THEN "invoice"
    ELSE IF IsPoName(Lower(FileBasename(files_data[i]))) THEN "purchase_order"
    ELSE IF DictGet(FirstLoop.unclassified, IdentityOf(files_data[i]))
               # files_data[i]
    THEN "none"
    ELSE ResolvedClass([k |-> IdentityOf(files_data[i]), v |-> files_data[i]])

\* the files of the class and identity of the i-th file
Sharing(i) ==
    {j \in 1..Len(files_data) :
        /\ ClassOf(j) = ClassOf(i)
        /\ HasIdentity(files_data[j])
        /\ IdentityOf(files_data[j]) = IdentityOf(files_data[i])}

MappingOf(class) ==
    IF class = "invoice" THEN mres.invoices ELSE mres.purchase_orders

\* the latest of the files sharing the class and identity of the i-th is
\* held in the mapping, and the others are in no pair
LastOfClassHeld(i) ==
    /\ DictHas(MappingOf(ClassOf(i)), IdentityOf(files_data[i]))
    /\ DictGet(MappingOf(ClassOf(i)), IdentityOf(files_data[i]))
          = files_data[MaxOf(Sharing(i))]
    /\ \A j \in Sharing(i) :
          files_data[j] # files_data[MaxOf(Sharing(i))]
              => Places(files_data[j]) = {}

\* C20: of the files of one class that share an identity, the latest in
\* input order is the one held in the class's mapping and used in a pair;
\* the earlier ones are in no pair, and the identity is at most once in an
\* unmatched list
C20_LastFileWins ==
    Returned =>
        /\ \A i \in 1..Len(files_data) :
              ClassOf(i) \in {"invoice", "purchase_order"} => LastOfClassHeld(i)
        /\ \A d \in Elems(mres.unmatched_inv) : Count(mres.unmatched_inv, d) = 1
        /\ \A d \in Elems(mres.unmatched_po) : Count(mres.unmatched_po, d) = 1

\* C20 on the lists whose files are all classified by name
C20_ClassifiedByName ==
    (Returned /\ FirstLoop.unclassified = <<>>) =>
        /\ \A i \in 1..Len(files_data) :
              ClassOf(i) \in {"invoice", "purchase_order"} => LastOfClassHeld(i)
        /\ \A d \in Elems(mres.unmatched_inv) : Count(mres.unmatched_inv, d) = 1
        /\ \A d \in Elems(mres.unmatched_po) : Count(mres.unmatched_po, d) = 1

\* the keys of a dict in insertion order, those of S left out
KeysOutside(d, S) ==
    LET kept == SelectSeq(d, LAMBDA item : item.k \notin S)
    IN  [i \in 1..Len(kept) |-> kept[i].k]

\* the place of a key in a dict
PlaceOf(d, k) == CHOOSE i \in 1..Len(d) : d[i].k = k

\* the unmatched lists are the mappings' keys in insertion order, the
\* matched identities left out, and the pairs of the second pass come in
\* the insertion order of their invoices
InInsertionOrder(o) ==
    /\ o.unmatched_inv =
          KeysOutside(o.invoices,
                      {o.matched_pairs[i].doc_number :
                          i \in 1..Len(o.matched_pairs)})
    /\ o.unmatched_po =
          KeysOutside(o.purchase_orders,
                      {IdentityOf(o.matched_pairs[i].purchase_order) :
                          i \in 1..Len(o.matched_pairs)})
    /\ \A i, j \in FuzzyIdx :
          i < j => PlaceOf(o.invoices, o.matched_pairs[i].doc_number)
                      < PlaceOf(o.invoices, o.matched_pairs[j].doc_number)

\* C21: the unmatched lists and the scan of the second pass follow the
\* insertion order of each identity's first occurrence, and every run of
\* match_documents on the same input returns the same lists in the same
\* order
C21_InsertionOrder ==
    Returned =>
        /\ InInsertionOrder(mres)
        /\ \A o \in MatchOutcomes(files_data) : o = mres

\* C21 without the order: every run returns, in some order, the unmatched
\* identities in insertion order, once each
C21_UpToOrder ==
    Returned =>
        /\ mres.unmatched_inv \in ListsOf(Elems(KeysOutside(mres.invoices, ConsumedInv)))
        /\ mres.unmatched_po \in ListsOf(Elems(KeysOutside(mres.purchase_orders, ConsumedPo)))

\* the class the rule gives a file: Invoice when the invoice pattern
\* matches, else PurchaseOrder when the PO pattern matches, else Unclassified
RuleClass(file_data) ==
    IF IsInvoiceName(Lower(FileBasename(file_data))) THEN "invoices"
    ELSE IF IsPoName(Lower(FileBasename(file_data))) THEN "purchase_orders"
    ELSE "unclassified"

\* the files of the input, each with its document number and the class the
\* rule gives it
FilesByRule ==
    {[file |-> files_data[i],
      num |-> extract_document_number(FileBasename(files_data[i])),
      class |-> RuleClass(files_data[i])] : i \in 1..Len(files_data)}

\* the files among cs with a class and an identity
FilesOfClass(class, d, cs) ==
    {c.file : c \in {x \in cs : x.num.present /\ x.class = class /\ x.num.str = d}}

\* the identities of a mapping of the first loop are those of the files of
\* its class, and the file held is one of them
MappingHoldsClass(class, dict, cs) ==
    /\ DictKeys(dict) = {c.num.str : c \in {x \in cs : x.num.present /\ x.class = class}}
    /\ \A k \in 1..Len(dict) : dict[k].v \in FilesOfClass(class, dict[k].k, cs)

\* the files named in the outcome: the two sides of the pairs
PairedFiles ==
    {mres.matched_pairs[i].invoice : i \in PairIdx}
        \cup {mres.matched_pairs[i].purchase_order : i \in PairIdx}

\* C22: the first loop places each file with an identity in the mapping the
\* rule names (Invoice before PurchaseOrder before Unclassified) and in no
\* other; a file without identity is in no mapping, in no pair, and the
\* unmatched lists hold identities of files only
C22_ClassifiedByRule ==
    mpc = "ret" =>
        LET first == FirstLoop
            cs == FilesByRule
            held == {first.invoices[k].v : k \in 1..Len(first.invoices)}
                      \cup {first.purchase_orders[k].v :
                               k \in 1..Len(first.purchase_orders)}
                      \cup {first.unclassified[k].v :
                               k \in 1..Len(first.unclassified)}
        IN  /\ MappingHoldsClass("invoices", first.invoices, cs)
            /\ MappingHoldsClass("purchase_orders", first.purchase_orders, cs)
            /\ MappingHoldsClass("unclassified", first.unclassified, cs)
            /\ \A c \in cs :
                  ~c.num.present => c.file \notin held \cup PairedFiles
            /\ \A d \in Elems(mres.unmatched_inv) \cup Elems(mres.unmatched_po) :
                  \E c \in cs : c.num.present /\ c.num.str = d

\* a call returned on a file whose name matches both patterns, paired as
\* the invoice, and a file without identity
C22_Witness ==
    /\ Returned
    /\ \E i, j \in 1..Len(files_data) :
          /\ HasIdentity(files_data[i])
          /\ IsInvoiceName(Lower(FileBasename(files_data[i])))
          /\ IsPoName(Lower(FileBasename(files_data[i])))
          /\ \E k \in PairIdx : mres.matched_pairs[k].invoice = files_data[i]
          /\ ~HasIdentity(files_data[j])

----------------------------------------------------------------------------
(* Claims about the fallbacks of extract_document_number (SpecExtract)     *)

\* the extension-stripped lower-cased name
CleanName == SplitextRoot(Lower(filename))

DigitPlaces(s) == {i \in 1..Len(s) : s[i] \in Digits}

\* the last run of digits of a string that holds a digit
LastRun(s) ==
    SubSeq(s,
           MinOf({b \in 1..MaxOf(DigitPlaces(s)) :
                     \A k \in b..MaxOf(DigitPlaces(s)) : s[k] \in Digits}),
           MaxOf(DigitPlaces(s)))

\* no role pattern and no separator-framed pattern fires
OnlyLastResort ==
    \A k \in 1..5 :
        Searches(CleanName, InvoiceHint(CleanName), PoHint(CleanName))[k] = <<>>

\* C23: when no role pattern and no separator-framed pattern fires the
\* result is the normalized last run of digits of the cleaned name, and it
\* is absent only when the cleaned name holds no digit
C23_LastRunFallback ==
    (xpc = "ret" /\ OnlyLastResort) =>
        doc_number = IF DigitPlaces(CleanName) = {} THEN None
                     ELSE Some(Normalize(LastRun(CleanName)))

\* C23 on the names without a digit: the result is absent
C23_AbsentWithoutDigit ==
    (xpc = "ret" /\ DigitPlaces(CleanName) = {}) => doc_number = None

----------------------------------------------------------------------------
(* Claims about the temporary files of process_document_pairs (Spec)       *)

\* no unlink has failed and no exception is propagating
Undisturbed == unlink_errors = 0 /\ ~raising

\* during the extraction calls of a pair only its own two temporary files
\* exist, and none exists when the next pair is taken or a batch ends
OwnFilesOnly ==
    /\ ppc = "extract" =>
          disk = IF pair.invoice.tuple THEN {n_tmp - 1, n_tmp} ELSE {}
    /\ (ppc = "pair" /\ pair_idx < end_idx) => disk = {}
    /\ ppc \in {"batch", "returned"} => disk = {}

\* C24: each in-memory pair creates exactly two temporary files right
\* before its extraction calls, and both are deleted once the calls have
\* returned, before the next pair's files are created
C24_TempFilesPerPair == Undisturbed => OwnFilesOnly

\* C24 on the calls with batch_size = 1
C24_BatchSizeOne == (Undisturbed /\ batch_size = 1) => OwnFilesOnly

\* C25: when a batch begins the tracking list is empty and, no unlink
\* having failed, no temporary file of an earlier batch exists; at every
\* moment at most 2 x batch_size temporary files of the call exist
C25_BatchStartsClean ==
    /\ ppc = "batch" => temp_files = <<>>
    /\ (ppc = "batch" /\ unlink_errors = 0) => disk = {}
    /\ unlink_errors = 0 => Cardinality(disk) <= 2 * batch_size

\* a second batch begins after a batch that created temporary files
C25_Witness ==
    /\ ppc = "batch"
    /\ batch_idx >= 1
    /\ batch_idx < total_batches
    /\ n_tmp >= 2
    /\ unlink_errors = 0

\* a cleanup in which an unlink fails unlinks every other tracked path,
\* raises nothing and loses no result; at the end of a batch the call goes
\* on to the next batch with an empty tracking list
FailedCleanupGoesOn ==
    unlink_errors' > unlink_errors =>
        /\ Cardinality(disk' \cap Elems(temp_files)) = unlink_errors' - unlink_errors
        /\ disk' \ Elems(temp_files) = disk \ Elems(temp_files)
        /\ raising' = raising
        /\ comparison_results' = comparison_results
        /\ ppc = "pair" =>
              /\ ppc' = "batch"
              /\ batch_idx' = batch_idx + 1
              /\ temp_files' = <<>>

----------------------------------------------------------------------------
(* Claims about the session of the Document Validation page (SpecApp)      *)

\* a script run calls match_documents only when it finds no stored results
MatchOnlyWhenNone ==
    (app_calls'.match = 1 /\ apc # "processing")
        => ~session.comparison_results.some

\* with results stored, the next script run calls neither match_documents
\* nor process_document_pairs
StoredResultsReused ==
    session.comparison_results.some => (app_calls' = NoCalls /\ ppc' = "idle")

\* the script run of an upload change or of Reset (the runs that show
\* nothing) leaves comparison_results and comparison_df None
ChangeClearsResults ==
    apc' = "idle" =>
        (~session'.comparison_results.some /\ ~session'.comparison_df.some)

\* the files of the pairs the stored results are about
ResultFiles ==
    {session.matched_pairs[i].invoice : i \in 1..Len(session.matched_pairs)}
        \cup {session.matched_pairs[i].purchase_order :
                 i \in 1..Len(session.matched_pairs)}

\* the results shown are about files the uploader holds
ShownForUploadedFiles ==
    apc = "done" =>
        /\ session.comparison_results.some
        /\ ResultFiles \subseteq Elems(FilesOf(uploaded_files, in_memory))

\* C27: match_documents and process_document_pairs run only when
\* comparison_results is None, a Process click on stored results reuses
\* them, every upload change and every Reset sets comparison_results and
\* comparison_df back to None, and the results shown are never those of
\* files the uploader no longer holds
C27_ResultsFollowUploads ==
    /\ [][MatchOnlyWhenNone]_vars
    /\ [][StoredResultsReused]_vars
    /\ [][ChangeClearsResults]_vars
    /\ []ShownForUploadedFiles

\* C27 while the uploader holds a file
C27_WhileFilesUploaded ==
    /\ [][MatchOnlyWhenNone]_vars
    /\ [][StoredResultsReused]_vars
    /\ [][uploaded_files' # <<>> => ChangeClearsResults]_vars
    /\ [](uploaded_files # <<>> => ShownForUploadedFiles)

----------------------------------------------------------------------------
(* Claims about empty field maps in process_document_pairs (Spec)          *)

\* the k-th extraction got an empty field map for one of its documents
EmptyMapAt(k) ==
    \/ extract_document_fields(answers[k].invoice) = <<>>
    \/ extract_document_fields(answers[k].po) = <<>>

\* C28: a pair for which extraction yields an empty field map for either
\* document still has its ComparisonResult, with match false for all three
\* fields and overall_match true
C28_EmptyMapStillCompared ==
    \A k \in 1..Len(answers) :
        EmptyMapAt(k) =>
            /\ k <= Len(comparison_results)
            /\ comparison_results[k].doc_number
                  = matched_pairs[visits[k].index].doc_number
            /\ Len(comparison_results[k].field_comparisons) = 3
            /\ \A i \in 1..3 : ~comparison_results[k].field_comparisons[i].match
            /\ comparison_results[k].overall_match

\* a call returned after an extraction that failed for the invoice and read
\* a document for the purchase order
C28_Witness ==
    /\ ppc = "returned"
    /\ \E k \in 1..Len(answers) :
          /\ answers[k].invoice.kind = "error"
          /\ answers[k].po.kind = "document"

----------------------------------------------------------------------------
(* Claims about the identities of the pairs of match_documents (SpecMatch) *)

\* both sides of every pair have the pair's doc_number as identity
IdenticalIdentities ==
    \A i \in PairIdx :
        /\ IdentityOf(mres.matched_pairs[i].invoice)
              = mres.matched_pairs[i].doc_number
        /\ IdentityOf(mres.matched_pairs[i].purchase_order)
              = mres.matched_pairs[i].doc_number

\* int() parses every identity the second pass compares: the substring
\* branch is not reached
SubstringBranchDead ==
    \A d \in DictKeys(mres.invoices) \cup DictKeys(mres.purchase_orders) :
        IntParses(d)

\* every digit of every name is an ASCII digit
AsciiNames ==
    \A i \in 1..Len(files_data) :
        \A k \in 1..Len(files_data[i].str) :
            files_data[i].str[k] \notin UnicodeDigits

\* C29: every pair returned joins an invoice and a purchase order with
\* identical identity strings, the second pass adding no pair, and the
\* substring branch is never reached
C29_IdenticalIdentities ==
    Returned => (IdenticalIdentities /\ SubstringBranchDead)

\* C29 on the names whose digits are ASCII
C29_AsciiNames ==
    (Returned /\ AsciiNames) => (IdenticalIdentities /\ SubstringBranchDead)

\* the substring branch is never reached, whatever the digits
C29_SubstringBranchDead == Returned => SubstringBranchDead

----------------------------------------------------------------------------
(* Claims about estimate_memory_usage (SpecEstimate)                       *)

InRange == ~memory_stats.raised /\ memory_stats.recommended_batch_size \in 1..10

\* C30: for every list of uploaded files, the empty list and the files of
\* total size 0 included, estimate_memory_usage returns without raising
\* and recommended_batch_size is an integer from 1 to 10
C30_BatchSizeInRange == epc = "ret" => InRange

\* C30 on the lists whose total size is not 0
C30_NonEmptyTotal == (epc = "ret" /\ SumOf(file_sizes) > 0) => InRange

====
